---- MODULE Spec2Model ----
(***************************************************************************)
(* The two notebooks of "Journey 2 - Build the Ultimate Retrieval System   *)
(* for RAG" as one state machine.  A state is a Jupyter kernel: its global *)
(* namespace, os.environ, the output of the cell that ran last and the     *)
(* exception (if any) that ended it.  One action is one run of one code    *)
(* cell; cells may be run in any order and any number of times.            *)
(*                                                                         *)
(* Python strings are sequences of one-character strings; a literal whose  *)
(* characters never matter is a one-element sequence holding the literal.  *)
(* Every Python value is a record with a "type" field.                     *)
(***************************************************************************)
EXTENDS Integers, Sequences, FiniteSets, TLC

VARIABLES
    notebook,    \* which notebook the kernel belongs to: "search" or "rag"
    dotenvFile,  \* the .env file next to the notebook: name -> string
    hits,        \* the documents the search index ranks for the query, best first
    fieldOrder,  \* the order in which the service serialises a document's fields
    environ,     \* os.environ: name -> string, for the names that are set
    ns,          \* the kernel's global namespace: name -> value
    wire,        \* the last request sent to the Azure OpenAI service
    stdout,      \* what the last cell printed
    Out,         \* the value the last cell displayed
    lastRun,     \* the last cell run, the exception that ended it and where
    progress     \* how many cells of the notebook have run, each once, in document
                 \* order and without raising; -1 once a run departs from that

vars == <<notebook, dotenvFile, hits, fieldOrder, environ, ns, wire, stdout, Out,
          lastRun, progress>>

----------------------------------------------------------------------------
(* Bounds of the model *)

\* Most documents the index of the search notebook ranks for one query.
MaxRows == 2

\* Most documents the index of the RAG notebook ranks for one query.
MaxHits == 4

\* Chunk lengths range over TruncLen - MaxExtra + 1 .. TruncLen + MaxExtra.
MaxExtra == 1

----------------------------------------------------------------------------
(* Python values *)

Undef == [type |-> "undefined"]
None == [type |-> "NoneType"]
Str(s) == [type |-> "str", val |-> s]
Float(n) == [type |-> "float", val |-> n]
List(items) == [type |-> "list", items |-> items]

\* Truthy as `x is not None` would test it
TruthyWhenNotNone(v) == v.type = "str"

\* bool(x) for the values an `if` of the notebooks tests
Truthy(v) == v.type = "str" /\ v.val # <<>>

Min(a, b) == IF a < b THEN a ELSE b

\* haystack[i .. i+Len(needle)-1] = needle for some i
Occurs(needle, haystack) ==
    \E i \in 0..(Len(haystack) - Len(needle)) :
        SubSeq(haystack, i + 1, i + Len(needle)) = needle

RECURSIVE Concat(_)
Concat(ss) == IF ss = <<>> THEN <<>> ELSE Head(ss) \o Concat(Tail(ss))

Range(seq) == {seq[i] : i \in DOMAIN seq}

----------------------------------------------------------------------------
(* The environment: os.environ and the .env file *)

\* os.getenv(name): None when the name is not set
getenv(env, name) == IF name \in DOMAIN env THEN Str(env[name]) ELSE None

\* load_dotenv(override=True): every name of the file is set, over any old value
load_dotenv(env, file) ==
    [n \in DOMAIN env \cup DOMAIN file |-> IF n \in DOMAIN file THEN file[n] ELSE env[n]]

\* what a variable of the .env file may hold: left out, left empty, or filled in
EnvSettings == {"unset", "empty", "filled"}

\* the file in which each name of `names` has the setting `setting[name]`
EnvFile(names, setting) ==
    [n \in {m \in names : setting[m] # "unset"} |->
        IF setting[n] = "empty" THEN <<>> ELSE <<n>>]

----------------------------------------------------------------------------
(* The kernel *)

SearchNames == {"endpoint", "index_name", "credential", "search_client",
                "display_results", "searchText", "results", "VectorizableTextQuery"}

RagNames == {"AZURE_OPENAI_ENDPOINT", "AZURE_OPENAI_API_KEY",
             "AZURE_OPENAI_CHAT_COMPLETION_DEPLOYED_MODEL_NAME",
             "AZURE_SEARCH_ENDPOINT", "AZURE_SEARCH_INDEX_NAME",
             "AZURE_SEARCH_ADMIN_KEY", "openai_client", "azure_credential",
             "token_provider", "search_client", "get_embedding", "user_question",
             "user_question_vector", "search_results", "result", "context",
             "SYSTEM_MESSAGE", "USER_MESSAGE", "response", "answer", "os",
             "VectorizableTextQuery"}

Names == SearchNames \cup RagNames

\* the namespace n after the assignments name := val[name], for the names of val
Bind(n, val) == [x \in DOMAIN n |-> IF x \in DOMAIN val THEN val[x] ELSE n[x]]

Defined(n, names) == \A x \in names : n[x] # Undef

\* How a cell ended: the kernel it leaves and the exception that stopped it.
Completed(n, printed, shown) ==
    [ns |-> n, stdout |-> printed, Out |-> shown, raised |-> "none", at |-> "end"]

Raised(n, printed, exc, stmt) ==
    [ns |-> n, stdout |-> printed, Out |-> Undef, raised |-> exc, at |-> stmt]

\* The kernel takes the result r of running `cell`, the cell at place `k` of its notebook.
Finish(cell, k, r) ==
    /\ ns' = r.ns
    /\ stdout' = r.stdout
    /\ Out' = r.Out
    /\ lastRun' = [cell |-> cell, raised |-> r.raised, at |-> r.at]
    /\ progress' = IF progress = k - 1 /\ r.raised = "none" THEN k ELSE -1

----------------------------------------------------------------------------
(* The search service and the SDK's result iterator *)

\* The dict the SDK yields for the document doc at place `rank`: the document's
\* selected fields in the service's order, then the @search.* keys the SDK adds.
ResultDict(doc, rank, req, order) ==
    LET fields == SelectSeq(order, LAMBDA f : f \in DOMAIN doc /\
                      (req.select = None \/ f \in Range(req.select.items)))
        keys == fields \o <<"@search.score", "@search.reranker_score",
                            "@search.highlights", "@search.captions">>
        at == [k \in Range(keys) |->
                 IF k \in DOMAIN doc THEN doc[k]
                 ELSE IF k = "@search.score" THEN Float(0 - rank)
                 ELSE IF k = "@search.reranker_score" /\ req.query_type = Str(<<"semantic">>)
                      THEN Float(0 - rank)
                 ELSE None]
    IN  [keys |-> keys, at |-> at]

\* What the service answers to the request req: the best req.top documents.
Respond(req, ranked, order) ==
    [i \in 1..Min(req.top, Len(ranked)) |-> ResultDict(ranked[i], i, req, order)]

\* search_client.search(...): a SearchItemPaged; nothing is fetched before it is iterated.
SearchItemPaged(req) == [type |-> "SearchItemPaged", request |-> req, consumed |-> FALSE]

\* The items one pass over the iterator `it` yields.  An ItemPaged is its own
\* iterator: a pass takes what is left, and after a full pass nothing is left.
Yielded(it, ranked, order) ==
    IF it.consumed THEN <<>> ELSE Respond(it.request, ranked, order)

\* the iterator after a full pass
Exhausted(it) == [it EXCEPT !.consumed = TRUE]

----------------------------------------------------------------------------
(* Search notebook, cell "3. Load Environment Variables" *)

\* AzureKeyCredential(key): TypeError unless key is a str
AzureKeyCredential(key) == [type |-> "AzureKeyCredential", key |-> key]

LoadEnvironmentVariablesCell(env, n) ==
    IF "AZURE_SEARCH_SERVICE_ENDPOINT" \notin DOMAIN env
    THEN Raised(n, <<>>, "KeyError", "endpoint")
    ELSE LET n1 == Bind(n, [endpoint |-> Str(env["AZURE_SEARCH_SERVICE_ENDPOINT"])]) IN
    IF "AZURE_SEARCH_INDEX" \notin DOMAIN env
    THEN Raised(n1, <<>>, "KeyError", "index_name")
    ELSE LET n2 == Bind(n1, [index_name |-> Str(env["AZURE_SEARCH_INDEX"])]) IN
    IF getenv(env, "AZURE_SEARCH_ADMIN_KEY").type # "str"
    THEN Raised(n2, <<>>, "TypeError", "credential")
    ELSE Completed(
           Bind(n2, [credential |-> AzureKeyCredential(getenv(env, "AZURE_SEARCH_ADMIN_KEY"))]),
           <<>>, Undef)

LoadEnvironmentVariables ==
    /\ notebook = "search"
    /\ \E sdkFails \in BOOLEAN :
         IF sdkFails
         THEN /\ environ' = environ
              /\ Finish("LoadEnvironmentVariables", 1, Raised(ns, <<>>, "OSError", "load_dotenv"))
         ELSE /\ environ' = load_dotenv(environ, dotenvFile)
              /\ Finish("LoadEnvironmentVariables", 1,
                        LoadEnvironmentVariablesCell(load_dotenv(environ, dotenvFile), ns))
    /\ UNCHANGED <<notebook, dotenvFile, hits, fieldOrder, wire>>

----------------------------------------------------------------------------
(* Search notebook, cell "4. Set Up API Client and Define the Display Function" *)

TruncLen == 300

Dots == <<".", ".", ".">>

first_cols == <<"title", "chunk", "@search.score">>

\* Shorten with the test len(c) >= 300
ShortenFromLimit(c) == IF Len(c) >= TruncLen THEN SubSeq(c, 1, TruncLen) \o Dots ELSE c

\* lambda c: c[:300] + '...' if len(c) > 300 else c
Shorten(c) == IF Len(c) > TruncLen THEN SubSeq(c, 1, TruncLen) \o Dots ELSE c

\* the columns of pd.json_normalize(rows): every key, in order of first appearance
RECURSIVE Columns(_)
Columns(rows) ==
    IF rows = <<>> THEN <<>>
    ELSE LET before == Columns(SubSeq(rows, 1, Len(rows) - 1))
             last == rows[Len(rows)].keys
         IN  before \o SelectSeq(last, LAMBDA k : k \notin Range(before))

\* the value of row r in column c: None where the row has no such key
Cell(r, c) == IF c \in DOMAIN r THEN r[c] ELSE None

\* pd.json_normalize(list(results)).dropna(axis=1, how='all')
Normalized(rows) ==
    LET cols == Columns(rows)
        kept == SelectSeq(cols, LAMBDA c : \E i \in DOMAIN rows : Cell(rows[i].at, c) # None)
    IN  [columns |-> kept,
         rows |-> [i \in DOMAIN rows |-> [c \in Range(kept) |-> Cell(rows[i].at, c)]]]

\* Reordered without the filter: first_cols + list(df.columns)
ReorderedUnfiltered(columns) == first_cols \o columns

\* df[first_cols + [col for col in df.columns if col not in first_cols]]
Reordered(columns) ==
    first_cols \o SelectSeq(columns, LAMBDA col : col \notin Range(first_cols))

StyleProperties ==
    [max_width |-> "500px", text_align |-> "left", white_space |-> "normal",
     word_wrap |-> "break-word", hide |-> "index"]

\* display_results(results) for the items a pass over results yields: the Styler
\* it returns, or the exception it raises.
display_results(items) ==
    LET df == Normalized(items) IN
    IF "chunk" \notin Range(df.columns)
    THEN [raised |-> "KeyError", at |-> "df[chunk]"]
    ELSE IF \E i \in DOMAIN df.rows : df.rows[i]["chunk"].type # "str"
    THEN [raised |-> "TypeError", at |-> "len(c)"]
    ELSE LET short == [i \in DOMAIN df.rows |->
                         [df.rows[i] EXCEPT !["chunk"] = Str(Shorten(@.val))]] IN
    IF \E c \in Range(first_cols) : c \notin Range(df.columns)
    THEN [raised |-> "KeyError", at |-> "df[first_cols]"]
    ELSE [raised |-> "none",
          value |-> [type |-> "Styler", columns |-> Reordered(df.columns),
                     rows |-> short, properties |-> StyleProperties]]

SearchClient(endpoint, index_name, credential) ==
    [type |-> "SearchClient", endpoint |-> endpoint, index_name |-> index_name,
     credential |-> credential]

searchTextLiteral == <<"Pappapermisjon i sopra steria">>

SetUpApiClientCell(n, sdkFails) ==
    IF ~Defined(n, {"endpoint", "index_name", "credential"})
    THEN Raised(n, <<>>, "NameError", "search_client")
    ELSE IF sdkFails
    THEN Raised(n, <<>>, "ValueError", "search_client")
    ELSE Completed(
           Bind(n, [search_client |->
                        SearchClient(n["endpoint"], n["index_name"], n["credential"]),
                    display_results |-> [type |-> "function"],
                    searchText |-> Str(searchTextLiteral)]),
           <<>>, Undef)

SetUpApiClient ==
    /\ notebook = "search"
    /\ \E sdkFails \in BOOLEAN :
         Finish("SetUpApiClient", 2, SetUpApiClientCell(ns, sdkFails))
    /\ UNCHANGED <<notebook, dotenvFile, hits, fieldOrder, environ, wire>>

----------------------------------------------------------------------------
(* Search notebook, the cells of "5. Perform Different Search Methods" *)

SearchTop == 5

SearchNeighbors == 50

\* the keyword arguments of search_client.search, None where the call passes none
SearchRequest(search_text, top, vector_queries, select, query_type, configuration) ==
    [search_text |-> search_text, top |-> top, vector_queries |-> vector_queries,
     select |-> select, query_type |-> query_type,
     semantic_configuration_name |-> configuration]

VectorizableTextQuery(text, k_nearest_neighbors, fields) ==
    [type |-> "VectorizableTextQuery", text |-> text,
     k_nearest_neighbors |-> k_nearest_neighbors, fields |-> fields]

TitleAndChunk == List(<<"title", "chunk">>)

KeywordRequest(text) ==
    SearchRequest(text, SearchTop, None, TitleAndChunk, None, None)

VectorRequest(text) ==
    SearchRequest(None, SearchTop,
                  List(<<VectorizableTextQuery(text, SearchNeighbors, "text_vector")>>),
                  TitleAndChunk, None, None)

\* HybridRequest without its search text
HybridRequestVectorOnly(text) ==
    SearchRequest(None, SearchTop,
                  List(<<VectorizableTextQuery(text, SearchNeighbors, "text_vector")>>),
                  TitleAndChunk, None, None)

HybridRequest(text) ==
    SearchRequest(text, SearchTop,
                  List(<<VectorizableTextQuery(text, SearchNeighbors, "text_vector")>>),
                  TitleAndChunk, None, None)

SemanticRequest(text) ==
    SearchRequest(text, SearchTop,
                  List(<<VectorizableTextQuery(text, SearchNeighbors, "text_vector")>>),
                  TitleAndChunk, Str(<<"semantic">>),
                  Str(<<"sopravector2-semantic-configuration">>))

\* results = search_client.search(...); display_results(results)
\* n: the namespace after the cell's imports; uses: the names the search statement reads;
\* fail: the SDK call that fails in this run, if any.
SearchAndDisplayCell(n, uses, req, fail) ==
    IF ~Defined(n, uses)
    THEN Raised(n, <<>>, "NameError", "results")
    ELSE IF fail = "search"
    THEN Raised(n, <<>>, "HttpResponseError", "results")
    ELSE LET n1 == Bind(n, [results |-> SearchItemPaged(req)]) IN
    IF ~Defined(n1, {"display_results"})
    THEN Raised(n1, <<>>, "NameError", "display_results")
    ELSE IF fail = "fetch"
    THEN Raised(n1, <<>>, "HttpResponseError", "list(results)")
    ELSE LET items == Yielded(n1["results"], hits, fieldOrder)
             n2 == Bind(n1, [results |-> Exhausted(n1["results"])])
             shown == display_results(items)
         IN  IF shown.raised # "none"
             THEN Raised(n2, <<>>, shown.raised, shown.at)
             ELSE Completed(n2, <<>>, shown.value)

SdkFailures == {"none", "search", "fetch"}

KeywordSearch ==
    /\ notebook = "search"
    /\ \E fail \in SdkFailures :
         Finish("KeywordSearch", 3,
                SearchAndDisplayCell(ns, {"search_client", "searchText"},
                                     KeywordRequest(ns["searchText"]), fail))
    /\ UNCHANGED <<notebook, dotenvFile, hits, fieldOrder, environ, wire>>

\* the cell starts with: from azure.search.documents.models import VectorizableTextQuery
VectorSearch ==
    /\ notebook = "search"
    /\ \E fail \in SdkFailures :
         Finish("VectorSearch", 4,
                SearchAndDisplayCell(
                    Bind(ns, [VectorizableTextQuery |-> [type |-> "class"]]),
                    {"search_client", "searchText", "VectorizableTextQuery"},
                    VectorRequest(ns["searchText"]), fail))
    /\ UNCHANGED <<notebook, dotenvFile, hits, fieldOrder, environ, wire>>

HybridSearch ==
    /\ notebook = "search"
    /\ \E fail \in SdkFailures :
         Finish("HybridSearch", 5,
                SearchAndDisplayCell(ns,
                    {"search_client", "searchText", "VectorizableTextQuery"},
                    HybridRequest(ns["searchText"]), fail))
    /\ UNCHANGED <<notebook, dotenvFile, hits, fieldOrder, environ, wire>>

HybridSearchSemanticRanker ==
    /\ notebook = "search"
    /\ \E fail \in SdkFailures :
         Finish("HybridSearchSemanticRanker", 6,
                SearchAndDisplayCell(ns,
                    {"search_client", "searchText", "VectorizableTextQuery"},
                    SemanticRequest(ns["searchText"]), fail))
    /\ UNCHANGED <<notebook, dotenvFile, hits, fieldOrder, environ, wire>>

----------------------------------------------------------------------------
(* The search notebook's kernel at start, and the inputs it is run on *)

\* a chunk of n characters
ChunkOf(n) == [i \in 1..n |-> IF i % 3 = 0 THEN "b" ELSE "a"]

ChunkLengths == {0} \cup ((TruncLen - MaxExtra + 1)..(TruncLen + MaxExtra))

\* the documents of the index: title and chunk, either of which may be null
SearchDocs ==
    [title : {Str(<<"T">>)}, chunk : {None} \cup {Str(ChunkOf(n)) : n \in ChunkLengths}]
    \cup {[title |-> None, chunk |-> Str(ChunkOf(0))]}

SeqsUpTo(S, n) == UNION {[1..k -> S] : k \in 0..n}

SearchEnvNames ==
    {"AZURE_SEARCH_SERVICE_ENDPOINT", "AZURE_SEARCH_INDEX", "AZURE_SEARCH_ADMIN_KEY"}

\* the .env of the notebook as shipped: endpoint and index filled in, the key left empty
SearchEnvTemplate ==
    EnvFile(SearchEnvNames,
            [n \in SearchEnvNames |->
                IF n = "AZURE_SEARCH_ADMIN_KEY" THEN "empty" ELSE "filled"])

OneDoc == [title |-> Str(<<"T">>), chunk |-> Str(ChunkOf(TruncLen + 1))]

\* Either the .env file varies and the index holds one document, or the file is
\* the shipped one and the index varies.
InitSearch ==
    /\ notebook = "search"
    /\ \/ /\ dotenvFile \in {EnvFile(SearchEnvNames, f) : f \in [SearchEnvNames -> EnvSettings]}
          /\ hits = <<OneDoc>>
          /\ fieldOrder = <<"title", "chunk">>
       \/ /\ dotenvFile = SearchEnvTemplate
          /\ hits \in SeqsUpTo(SearchDocs, MaxRows)
          /\ fieldOrder \in {<<"title", "chunk">>, <<"chunk", "title">>}
    /\ environ = <<>>
    /\ ns = [x \in Names |-> Undef]
    /\ wire = Undef
    /\ stdout = <<>>
    /\ Out = Undef
    /\ lastRun = [cell |-> "none", raised |-> "none", at |-> "end"]
    /\ progress = 0

NextSearch ==
    \/ LoadEnvironmentVariables
    \/ SetUpApiClient
    \/ KeywordSearch
    \/ VectorSearch
    \/ HybridSearch
    \/ HybridSearchSemanticRanker

SpecSearch == InitSearch /\ [][NextSearch]_vars

----------------------------------------------------------------------------
(* RAG notebook, cell "3. Setup API Clients" *)

\* a cell's result together with the request it left on the wire
Sending(r, request) ==
    [ns |-> r.ns, stdout |-> r.stdout, Out |-> r.Out, raised |-> r.raised, at |-> r.at,
     wire |-> request]

DefaultAzureCredential == [type |-> "DefaultAzureCredential"]

get_bearer_token_provider(credential, scope) ==
    [type |-> "token_provider", credential |-> credential, scope |-> scope]

\* AzureOpenAI(...) with the keyword arguments the call passes
AzureOpenAI(auth, azure_endpoint, api_version) ==
    [type |-> "AzureOpenAI", auth |-> auth, azure_endpoint |-> azure_endpoint,
     api_version |-> api_version]

ApiVersion == <<"2024-10-21">>

\* the cell from its imports to the end, on the environment env that load_dotenv left;
\* fail: the constructor that raises in this run, if any
SetupApiClientsCell(env, n, fail) ==
    LET n1 == Bind(n,
            [AZURE_OPENAI_ENDPOINT |-> getenv(env, "AZURE_OPENAI_ENDPOINT"),
             AZURE_OPENAI_API_KEY |-> getenv(env, "AZURE_OPENAI_API_KEY"),
             AZURE_OPENAI_CHAT_COMPLETION_DEPLOYED_MODEL_NAME |->
                 getenv(env, "AZURE_OPENAI_CHAT_COMPLETION_DEPLOYED_MODEL_NAME"),
             AZURE_SEARCH_ENDPOINT |-> getenv(env, "AZURE_SEARCH_SERVICE_ENDPOINT"),
             AZURE_SEARCH_INDEX_NAME |-> getenv(env, "AZURE_SEARCH_INDEX_NAME"),
             AZURE_SEARCH_ADMIN_KEY |-> getenv(env, "AZURE_SEARCH_ADMIN_KEY")])
        \* the else branch of the first `if`, up to the constructor
        n2 == IF Truthy(n1["AZURE_OPENAI_API_KEY"]) THEN n1
              ELSE Bind(n1,
                    [azure_credential |-> DefaultAzureCredential,
                     token_provider |->
                         get_bearer_token_provider(DefaultAzureCredential,
                             <<"https://cognitiveservices.azure.com/.default">>)])
        openai_client ==
            IF Truthy(n1["AZURE_OPENAI_API_KEY"])
            THEN AzureOpenAI([api_key |-> n1["AZURE_OPENAI_API_KEY"]],
                             n1["AZURE_OPENAI_ENDPOINT"], ApiVersion)
            ELSE AzureOpenAI([azure_ad_token_provider |-> n2["token_provider"]],
                             n1["AZURE_OPENAI_ENDPOINT"], ApiVersion)
        n3 == Bind(n2, [openai_client |-> openai_client])
        \* the else branch of the second `if`, up to the constructor
        n4 == IF Truthy(n3["AZURE_SEARCH_ADMIN_KEY"]) THEN n3
              ELSE Bind(n3, [azure_credential |-> DefaultAzureCredential])
        search_client ==
            IF Truthy(n3["AZURE_SEARCH_ADMIN_KEY"])
            THEN SearchClient(n3["AZURE_SEARCH_ENDPOINT"], n3["AZURE_SEARCH_INDEX_NAME"],
                              AzureKeyCredential(n3["AZURE_SEARCH_ADMIN_KEY"]))
            ELSE SearchClient(n3["AZURE_SEARCH_ENDPOINT"], n3["AZURE_SEARCH_INDEX_NAME"],
                              n4["azure_credential"])
    IN  IF fail = "AzureOpenAI"
        THEN Raised(n2, <<>>, "OpenAIError", "openai_client")
        ELSE IF fail = "SearchClient"
        THEN Raised(n4, <<>>, "ValueError", "search_client")
        ELSE Completed(Bind(n4, [search_client |-> search_client,
                                 get_embedding |-> [type |-> "function"]]),
                       <<>>, Undef)

\* the names the cell's import statements bind, before load_dotenv is called
RagImports == [os |-> [type |-> "module"], VectorizableTextQuery |-> [type |-> "class"]]

SetupApiClients ==
    /\ notebook = "rag"
    /\ \E fail \in {"none", "load_dotenv", "AzureOpenAI", "SearchClient"} :
         IF fail = "load_dotenv"
         THEN /\ environ' = environ
              /\ Finish("SetupApiClients", 1,
                        Raised(Bind(ns, RagImports), <<>>, "OSError", "load_dotenv"))
         ELSE /\ environ' = load_dotenv(environ, dotenvFile)
              /\ Finish("SetupApiClients", 1,
                        SetupApiClientsCell(load_dotenv(environ, dotenvFile),
                                            Bind(ns, RagImports), fail))
    /\ UNCHANGED <<notebook, dotenvFile, hits, fieldOrder, wire>>

----------------------------------------------------------------------------
(* RAG notebook, cell "4. Prepare a question" *)

user_questionLiteral == <<"Hvor ofte kan jeg bestille ny telefon?">>

\* the embeddings the service may return for a text
Embeddings == {List(<<1, 2>>), List(<<3, 4, 5>>)}

\* the request get_embedding(text) sends
EmbeddingRequest(env, text) ==
    [api |-> "embeddings.create",
     model |-> getenv(env, "AZURE_OPENAI_EMBEDDING_DEPLOYED_MODEL_NAME"),
     input |-> text]

\* PrepareQuestionCell with a handler around get_embedding that stores None and re-raises
PrepareQuestionCellDefaulting(env, n, sent, sdkFails, embedding) ==
    LET n1 == Bind(n, [user_question |-> Str(user_questionLiteral)]) IN
    IF ~Defined(n1, {"get_embedding"})
    THEN Sending(Raised(n1, <<>>, "NameError", "user_question_vector"), sent)
    ELSE IF sdkFails
    THEN Sending(Raised(Bind(n1, [user_question_vector |-> None]), <<>>, "APIError",
                        "user_question_vector"),
                 EmbeddingRequest(env, n1["user_question"]))
    ELSE Sending(Completed(Bind(n1, [user_question_vector |-> embedding]),
                           <<<<"Text embedding">>, embedding, Len(embedding.items)>>,
                           Undef),
                 EmbeddingRequest(env, n1["user_question"]))

\* sdkFails: embeddings.create raises; embedding: what it returns otherwise
PrepareQuestionCell(env, n, sent, sdkFails, embedding) ==
    LET n1 == Bind(n, [user_question |-> Str(user_questionLiteral)]) IN
    IF ~Defined(n1, {"get_embedding"})
    THEN Sending(Raised(n1, <<>>, "NameError", "user_question_vector"), sent)
    ELSE IF ~Defined(n1, {"openai_client", "os"})
    THEN Sending(Raised(n1, <<>>, "NameError", "get_embedding"), sent)
    ELSE IF sdkFails
    THEN Sending(Raised(n1, <<>>, "APIError", "user_question_vector"),
                 EmbeddingRequest(env, n1["user_question"]))
    ELSE Sending(Completed(Bind(n1, [user_question_vector |-> embedding]),
                           <<<<"Text embedding">>, embedding, Len(embedding.items)>>,
                           Undef),
                 EmbeddingRequest(env, n1["user_question"]))

PrepareQuestion ==
    /\ notebook = "rag"
    /\ \E sdkFails \in BOOLEAN, embedding \in Embeddings :
         LET r == PrepareQuestionCell(environ, ns, wire, sdkFails, embedding) IN
         /\ Finish("PrepareQuestion", 2, r)
         /\ wire' = r.wire
    /\ UNCHANGED <<notebook, dotenvFile, hits, fieldOrder, environ>>

----------------------------------------------------------------------------
(* RAG notebook, cell "5. Retrieve matching documents" *)

RagTop == 3

RagNeighbors == 3

\* RagRequest with the vector query built from the embedding of step 4
RagRequestFromEmbedding(text) ==
    SearchRequest(None, RagTop,
                  List(<<[type |-> "VectorizedQuery", vector |-> ns["user_question_vector"],
                          k_nearest_neighbors |-> RagNeighbors, fields |-> "text_vector"]>>),
                  None, None, None)

RagRequest(text) ==
    SearchRequest(None, RagTop,
                  List(<<VectorizableTextQuery(text, RagNeighbors, "text_vector")>>),
                  None, None, None)

\* the lines the loop prints for one result
PrintedResult(result) ==
    <<<<"Chunk ID:", result["chunk_id"]>>, <<"Title:", result["title"]>>,
      <<"Text:", result["chunk"]>>, <<>>>>

\* the namespace after a for loop over items has bound `result` to each in turn
AfterLoop(n, items) ==
    IF items = <<>> THEN n ELSE Bind(n, [result |-> items[Len(items)].at])

RetrieveMatchingDocumentsCell(n, fail) ==
    IF ~Defined(n, {"search_client", "VectorizableTextQuery", "user_question"})
    THEN Raised(n, <<>>, "NameError", "search_results")
    ELSE IF fail = "search"
    THEN Raised(n, <<>>, "HttpResponseError", "search_results")
    ELSE LET n1 == Bind(n, [search_results |-> SearchItemPaged(RagRequest(n["user_question"]))]) IN
    IF fail = "fetch"
    THEN Raised(n1, <<>>, "HttpResponseError", "for result in search_results")
    ELSE LET items == Yielded(n1["search_results"], hits, fieldOrder)
             n2 == Bind(n1, [search_results |-> Exhausted(n1["search_results"])])
         IN  Completed(AfterLoop(n2, items),
                       Concat([i \in DOMAIN items |-> PrintedResult(items[i].at)]),
                       Undef)

RetrieveMatchingDocuments ==
    /\ notebook = "rag"
    /\ \E fail \in SdkFailures :
         Finish("RetrieveMatchingDocuments", 3, RetrieveMatchingDocumentsCell(ns, fail))
    /\ UNCHANGED <<notebook, dotenvFile, hits, fieldOrder, environ, wire>>

----------------------------------------------------------------------------
(* RAG notebook, cell "6. RAG TIME! Generate a Response" *)

Newline == <<"\n">>

\* the lines of the f-string before {context}
PromptHead ==
    Newline
    \o <<"Du er en AI Assistent som har innsikt i Sopra Steria sin personalhåndbok vedlagt som context.">>
    \o Newline
    \o <<"Vær kortfattet og detaljert i svarene dine, bruk kun informasjon fra fra personalhåndboken.">>
    \o Newline \o Newline \o <<"Context:">> \o Newline

SystemMessage(context) == PromptHead \o context \o Newline

\* Gathered with one newline after each chunk
RECURSIVE GatheredSingleNewline(_, _)
GatheredSingleNewline(context, items) ==
    IF items = <<>> THEN context
    ELSE GatheredSingleNewline(context \o items[1].at["chunk"].val \o Newline, Tail(items))

\* context after: for result in items: context += result["chunk"] + "\n\n"
RECURSIVE Gathered(_, _)
Gathered(context, items) ==
    IF items = <<>> THEN context
    ELSE Gathered(context \o items[1].at["chunk"].val \o Newline \o Newline, Tail(items))

Temperature == "0.7"

ChatRequest(env, system, user) ==
    [api |-> "chat.completions.create",
     model |-> getenv(env, "AZURE_OPENAI_CHAT_COMPLETION_DEPLOYED_MODEL_NAME"),
     temperature |-> Temperature,
     messages |-> <<[role |-> "system", content |-> system],
                    [role |-> "user", content |-> user]>>]

ChatCompletion(contents) ==
    [type |-> "ChatCompletion",
     choices |-> [i \in DOMAIN contents |-> [message |-> [content |-> Str(contents[i])]]]]

\* the completions the service may return
Completions == {ChatCompletion(<<<<"x">>>>), ChatCompletion(<<<<"y">>, <<"x">>>>)}

\* fail: the SDK call that raises in this run, if any; completion: what
\* chat.completions.create returns otherwise
GenerateResponseCell(env, n, sent, fail, completion) ==
    LET n1 == Bind(n, [context |-> Str(<<>>)]) IN
    IF ~Defined(n1, {"search_results"})
    THEN Sending(Raised(n1, <<>>, "NameError", "for result in search_results"), sent)
    ELSE IF fail = "fetch" /\ ~n1["search_results"].consumed
    THEN Sending(Raised(n1, <<>>, "HttpResponseError", "for result in search_results"), sent)
    ELSE LET items == Yielded(n1["search_results"], hits, fieldOrder)
             n2 == AfterLoop(
                     Bind(n1, [search_results |-> Exhausted(n1["search_results"]),
                               context |-> Str(Gathered(n1["context"].val, items))]),
                     items)
             n3 == Bind(n2, [SYSTEM_MESSAGE |-> Str(SystemMessage(n2["context"].val))])
         IN
    IF ~Defined(n3, {"user_question"})
    THEN Sending(Raised(n3, <<>>, "NameError", "USER_MESSAGE"), sent)
    ELSE LET n4 == Bind(n3, [USER_MESSAGE |-> n3["user_question"]])
             request == ChatRequest(env, n4["SYSTEM_MESSAGE"], n4["USER_MESSAGE"])
         IN
    IF ~Defined(n4, {"openai_client", "os"})
    THEN Sending(Raised(n4, <<>>, "NameError", "response"), sent)
    ELSE IF fail = "chat"
    THEN Sending(Raised(n4, <<>>, "APIError", "response"), request)
    ELSE LET n5 == Bind(n4, [response |-> completion])
             n6 == Bind(n5, [answer |-> n5["response"].choices[1].message.content])
         IN  Sending(Completed(n6, <<n6["answer"]>>, Undef), request)

GenerateResponse ==
    /\ notebook = "rag"
    /\ \E fail \in {"none", "fetch", "chat"}, completion \in Completions :
         LET r == GenerateResponseCell(environ, ns, wire, fail, completion) IN
         /\ Finish("GenerateResponse", 4, r)
         /\ wire' = r.wire
    /\ UNCHANGED <<notebook, dotenvFile, hits, fieldOrder, environ>>

----------------------------------------------------------------------------
(* The RAG notebook's kernel at start, and the inputs it is run on *)

RagEnvNames ==
    {"AZURE_OPENAI_ENDPOINT", "AZURE_OPENAI_CHAT_COMPLETION_DEPLOYED_MODEL_NAME",
     "AZURE_OPENAI_EMBEDDING_DEPLOYED_MODEL_NAME", "AZURE_SEARCH_SERVICE_ENDPOINT",
     "AZURE_SEARCH_INDEX_NAME", "AZURE_SEARCH_ADMIN_KEY", "AZURE_OPENAI_API_KEY"}

\* the .env file with the two keys set as given and every other name filled in
RagEnvFile(openaiKey, searchKey) ==
    EnvFile(RagEnvNames,
            [n \in RagEnvNames |->
                IF n = "AZURE_OPENAI_API_KEY" THEN openaiKey
                ELSE IF n = "AZURE_SEARCH_ADMIN_KEY" THEN searchKey
                ELSE "filled"])

\* the .env of the notebook as shipped: both keys left empty
RagEnvTemplate == RagEnvFile("empty", "empty")

\* the documents of the index, by chunk text
RagDoc(chunk) ==
    [chunk_id |-> Str(<<"id:">> \o chunk), title |-> Str(<<"T">>), chunk |-> Str(chunk)]

RagDocs == {RagDoc(<<"a">>), RagDoc(<<"b", "a">>)}

\* Either the two keys vary and the index holds one document, or the file is
\* the shipped one and the index varies.
InitRag ==
    /\ notebook = "rag"
    /\ \/ /\ dotenvFile \in {RagEnvFile(o, k) : o \in EnvSettings, k \in EnvSettings}
          /\ hits = <<RagDoc(<<"a">>)>>
       \/ /\ dotenvFile = RagEnvTemplate
          /\ hits \in SeqsUpTo(RagDocs, MaxHits)
    /\ fieldOrder = <<"chunk_id", "title", "chunk">>
    /\ environ = <<>>
    /\ ns = [x \in Names |-> Undef]
    /\ wire = Undef
    /\ stdout = <<>>
    /\ Out = Undef
    /\ lastRun = [cell |-> "none", raised |-> "none", at |-> "end"]
    /\ progress = 0

NextRag ==
    \/ SetupApiClients
    \/ PrepareQuestion
    \/ RetrieveMatchingDocuments
    \/ GenerateResponse

SpecRag == InitRag /\ [][NextRag]_vars

----------------------------------------------------------------------------
(* Either notebook *)

Init == InitSearch \/ InitRag

Next == NextSearch \/ NextRag

Spec == Init /\ [][Next]_vars

----------------------------------------------------------------------------
(* Claims about the RAG notebook's grounding context *)

\* the cell that ran last ran to its end
Ran(cell) == lastRun.cell = cell /\ lastRun.raised = "none"

\* the Context section of a system message: what follows the line "Context:"
ContextSection(message) == SubSeq(message, Len(PromptHead) + 1, Len(message))

\* the chunk texts step 5's search returned, best first
RetrievedChunks ==
    LET items == Respond(ns["search_results"].request, hits, fieldOrder)
    IN  [i \in DOMAIN items |-> items[i].at["chunk"].val]

\* C1: when the four cells of the RAG notebook have run once each, in document
\* order, the system message sent to chat.completions.create holds, in its Context
\* section, the chunk of every document the step-5 search returned.
C1_ContextHoldsEveryRetrievedChunk ==
    (notebook = "rag" /\ progress = 4) =>
        \A i \in DOMAIN RetrievedChunks :
            Occurs(RetrievedChunks[i], ContextSection(wire.messages[1].content.val))

----------------------------------------------------------------------------
(* Claims about the clients' authentication *)

\* the name is set in the environment, to a string that is not empty
SetNonEmpty(name) == name \in DOMAIN environ /\ environ[name] # <<>>

\* C2: in the RAG notebook each client is built with exactly one authentication
\* mechanism, chosen by its own key alone: openai_client takes api_key iff
\* AZURE_OPENAI_API_KEY is set and not empty, and otherwise a token provider built from
\* DefaultAzureCredential; search_client takes AzureKeyCredential(AZURE_SEARCH_ADMIN_KEY)
\* iff that key is set and not empty, and otherwise DefaultAzureCredential; once the
\* cell has run to its end both clients are defined.
C2_OneMechanismPerClient ==
    notebook = "rag" =>
        /\ ns["openai_client"] # Undef =>
             LET auth == ns["openai_client"].auth IN
             /\ Cardinality(DOMAIN auth) = 1
             /\ ("api_key" \in DOMAIN auth) <=> SetNonEmpty("AZURE_OPENAI_API_KEY")
             /\ SetNonEmpty("AZURE_OPENAI_API_KEY") =>
                    auth["api_key"] = Str(environ["AZURE_OPENAI_API_KEY"])
             /\ ~SetNonEmpty("AZURE_OPENAI_API_KEY") =>
                    /\ DOMAIN auth = {"azure_ad_token_provider"}
                    /\ auth["azure_ad_token_provider"].credential.type = "DefaultAzureCredential"
        /\ ns["search_client"] # Undef =>
             LET credential == ns["search_client"].credential IN
             /\ credential.type \in {"AzureKeyCredential", "DefaultAzureCredential"}
             /\ (credential.type = "AzureKeyCredential") <=> SetNonEmpty("AZURE_SEARCH_ADMIN_KEY")
             /\ SetNonEmpty("AZURE_SEARCH_ADMIN_KEY") =>
                    credential.key = Str(environ["AZURE_SEARCH_ADMIN_KEY"])
        /\ Ran("SetupApiClients") => Defined(ns, {"openai_client", "search_client"})

\* The cell has run to its end with an API key for Azure OpenAI and none for the search
\* service: one client on its key, the other on DefaultAzureCredential.
C2_Witness ==
    /\ notebook = "rag"
    /\ Ran("SetupApiClients")
    /\ SetNonEmpty("AZURE_OPENAI_API_KEY")
    /\ "AZURE_SEARCH_ADMIN_KEY" \notin DOMAIN environ
    /\ "api_key" \in DOMAIN ns["openai_client"].auth
    /\ ns["search_client"].credential.type = "DefaultAzureCredential"

\* C3: if the search notebook's environment cell runs to its end, the endpoint, the
\* index name and the admin key were each set to a value that is not empty, so step 4
\* never builds its SearchClient from a missing or empty one.
C3_CredentialsAvailable ==
    notebook = "search" =>
        /\ Ran("LoadEnvironmentVariables") => \A name \in SearchEnvNames : SetNonEmpty(name)
        /\ ns["search_client"] # Undef =>
             /\ ns["search_client"].endpoint.val # <<>>
             /\ ns["search_client"].index_name.val # <<>>
             /\ ns["search_client"].credential.key.val # <<>>

----------------------------------------------------------------------------
(* Claims about the search notebook's four searches *)

SearchCells == {"KeywordSearch", "VectorSearch", "HybridSearch", "HybridSearchSemanticRanker"}

\* the last cell run was `cell`, and that run assigned `results`
Searched(cell) == notebook = "search" /\ lastRun.cell = cell /\ lastRun.at # "results"

\* the request has exactly one vector query: the search text, over field text_vector
OneVectorQuery(req) ==
    /\ req.vector_queries.type = "list"
    /\ Len(req.vector_queries.items) = 1
    /\ req.vector_queries.items[1].type = "VectorizableTextQuery"
    /\ req.vector_queries.items[1].text = ns["searchText"]
    /\ req.vector_queries.items[1].fields = "text_vector"

\* C4: the four searches use the same search text and differ only in what defines
\* their mode: keyword passes search_text and no vector query; vector passes no search
\* text and one vector query over text_vector; hybrid passes both; hybrid + semantic
\* ranker passes both, query_type "semantic" and a semantic configuration name.  Each
\* asks for top=5 and selects exactly title and chunk.
C4_SearchModes ==
    \A cell \in SearchCells : Searched(cell) =>
        LET req == ns["results"].request IN
        /\ req.top = 5
        /\ req.select = List(<<"title", "chunk">>)
        /\ ns["searchText"] = Str(searchTextLiteral)
        /\ (req.search_text = None) <=> (cell = "VectorSearch")
        /\ cell # "VectorSearch" => req.search_text = ns["searchText"]
        /\ (req.vector_queries = None) <=> (cell = "KeywordSearch")
        /\ cell # "KeywordSearch" => OneVectorQuery(req)
        /\ IF cell = "HybridSearchSemanticRanker"
           THEN /\ req.query_type = Str(<<"semantic">>)
                /\ req.semantic_configuration_name.type = "str"
           ELSE /\ req.query_type = None
                /\ req.semantic_configuration_name = None

\* The hybrid search has been issued: a request with both the text and the vector query.
C4_Witness ==
    /\ Searched("HybridSearch")
    /\ ns["results"].request.search_text = Str(searchTextLiteral)
    /\ OneVectorQuery(ns["results"].request)

----------------------------------------------------------------------------
(* Claims about display_results *)

\* a search cell ran to its end, so Out is what display_results returned
Displayed == notebook = "search" /\ lastRun.cell \in SearchCells /\ lastRun.raised = "none"

\* the rows display_results was given: what the service answered to the cell's request
GivenRows == Respond(ns["results"].request, hits, fieldOrder)

\* C6: display_results shortens a chunk of more than 300 characters to its first 300
\* followed by '...' (303 characters) and leaves a chunk of 300 or fewer as it is; so no
\* displayed chunk is longer than 303, the first min(len, 300) characters are kept, and
\* the rows are as many as given and in the given order.
C6_ChunksShortened ==
    Displayed =>
        /\ Len(Out.rows) = Len(GivenRows)
        /\ \A i \in DOMAIN GivenRows :
             LET given == GivenRows[i].at["chunk"].val
                 shown == Out.rows[i]["chunk"].val
                 kept == Min(Len(given), 300)
             IN  /\ Len(given) > 300 =>
                        /\ Len(shown) = 303
                        /\ SubSeq(shown, 1, 300) = SubSeq(given, 1, 300)
                        /\ SubSeq(shown, 301, 303) = <<".", ".", ".">>
                 /\ Len(given) <= 300 => shown = given
                 /\ Len(shown) <= 303
                 /\ SubSeq(shown, 1, kept) = SubSeq(given, 1, kept)
                 /\ Out.rows[i]["@search.score"] = GivenRows[i].at["@search.score"]
                 /\ Out.rows[i]["title"] = GivenRows[i].at["title"]

\* Two rows are displayed, the first shortened and the second left alone.
C6_Witness ==
    /\ Displayed
    /\ Len(Out.rows) = 2
    /\ Len(GivenRows[1].at["chunk"].val) = 301
    /\ Len(Out.rows[1]["chunk"].val) = 303
    /\ Len(GivenRows[2].at["chunk"].val) = 300
    /\ Len(Out.rows[2]["chunk"].val) = 300

\* the place of column c in the column list cols
Place(c, cols) == CHOOSE i \in DOMAIN cols : cols[i] = c

\* C7: display_results only reorders columns: when the normalized results (all-null
\* columns removed) hold title, chunk and @search.score, the output's columns are title,
\* chunk, @search.score, then every other column once, in its original relative order;
\* the output's column list is a permutation of the input's.
C7_ColumnsPermuted ==
    Displayed =>
        LET given == Normalized(GivenRows).columns
            shown == Out.columns
        IN  /\ {"title", "chunk", "@search.score"} \subseteq Range(given)
            /\ Len(shown) = Len(given)
            /\ Range(shown) = Range(given)
            /\ Cardinality(Range(shown)) = Len(shown)
            /\ SubSeq(shown, 1, 3) = <<"title", "chunk", "@search.score">>
            /\ \A i, j \in 4..Len(shown) :
                 i < j => Place(shown[i], given) < Place(shown[j], given)
            /\ \A i \in DOMAIN Out.rows : DOMAIN Out.rows[i] = Range(shown)

\* The service sends chunk before title and the semantic ranker adds a fourth column:
\* the first two columns are swapped and the fourth stays behind them.
C7_Witness ==
    /\ Displayed
    /\ Normalized(GivenRows).columns =
           <<"chunk", "title", "@search.score", "@search.reranker_score">>
    /\ Out.columns = <<"title", "chunk", "@search.score", "@search.reranker_score">>

----------------------------------------------------------------------------
(* Claims about exceptions *)

\* the exceptions the SDK calls raise
SdkErrors == {"OSError", "ValueError", "HttpResponseError", "OpenAIError", "APIError"}

\* the step leaves every name of `names` as it was
Kept(names) == \A x \in names : ns'[x] = ns[x]

\* what a run that an SDK call ended with an exception leaves undone
NothingAfterTheRaise ==
    LET cell == lastRun'.cell
        at == lastRun'.at
    IN  lastRun'.raised \in SdkErrors =>
        /\ Out' = Undef
        /\ cell = "LoadEnvironmentVariables" =>
               environ' = environ /\ Kept({"endpoint", "index_name", "credential"})
        /\ cell = "SetUpApiClient" => Kept({"search_client", "display_results", "searchText"})
        /\ (cell \in SearchCells /\ at = "results") => Kept({"results"})
        /\ (cell \in SearchCells /\ at = "list(results)") => ~ns'["results"].consumed
        /\ (cell = "SetupApiClients" /\ at = "load_dotenv") =>
               /\ environ' = environ
               /\ Kept(RagNames \ {"os", "VectorizableTextQuery"})
        /\ (cell = "SetupApiClients" /\ at = "openai_client") =>
               Kept({"openai_client", "search_client", "get_embedding"})
        /\ (cell = "SetupApiClients" /\ at = "search_client") =>
               Kept({"search_client", "get_embedding"})
        /\ cell = "PrepareQuestion" => Kept({"user_question_vector"}) /\ stdout' = <<>>
        /\ (cell = "RetrieveMatchingDocuments" /\ at = "search_results") =>
               Kept({"search_results", "result"}) /\ stdout' = <<>>
        /\ (cell = "RetrieveMatchingDocuments" /\ at = "for result in search_results") =>
               /\ ~ns'["search_results"].consumed
               /\ Kept({"result"})
               /\ stdout' = <<>>
        /\ (cell = "GenerateResponse" /\ at = "for result in search_results") =>
               /\ ns'["context"] = Str(<<>>)
               /\ wire' = wire
               /\ Kept({"result", "SYSTEM_MESSAGE", "USER_MESSAGE", "response", "answer"})
        /\ (cell = "GenerateResponse" /\ at = "response") =>
               Kept({"response", "answer"}) /\ stdout' = <<>>

----------------------------------------------------------------------------
(* Claims about the grounding prompt *)

IsChat(request) == request # Undef /\ request.api = "chat.completions.create"

\* what the chat request, the answer and the retrieval look like in every state
PromptShape ==
    notebook = "rag" =>
        /\ IsChat(wire) =>
             /\ Len(wire.messages) = 2
             /\ wire.messages[1] = [role |-> "system", content |-> ns["SYSTEM_MESSAGE"]]
             /\ wire.messages[2] = [role |-> "user", content |-> ns["user_question"]]
        /\ Ran("GenerateResponse") =>
             ns["answer"] = ns["response"].choices[1].message.content
        /\ ns["search_results"] # Undef =>
             /\ ns["search_results"].request.top = 3
             /\ ns["search_results"].request.vector_queries.items[1].k_nearest_neighbors = 3

\* what a run of step 6 that got past its loop makes of the results it iterates
PromptAssembled ==
    (lastRun'.cell = "GenerateResponse" /\ lastRun'.at \in {"USER_MESSAGE", "response", "end"}) =>
        LET iterated == Yielded(ns["search_results"], hits, fieldOrder)
            context == Concat([i \in DOMAIN iterated |->
                                  iterated[i].at["chunk"].val \o <<"\n", "\n">>])
            message == ns'["SYSTEM_MESSAGE"].val
        IN  /\ ns'["context"] = Str(context)
            /\ Len(iterated) <= 3
            /\ message[Len(PromptHead) - 1] = "Context:"
            /\ message[Len(PromptHead)] = "\n"
            /\ ContextSection(message) = context \o <<"\n">>

\* C8: context is the concatenation, in iteration order, of each result step 6 iterates
\* followed by "\n\n" (empty when it iterates none); SYSTEM_MESSAGE embeds it unchanged
\* after the line "Context:"; the chat request carries two messages, the system message
\* and then the user's question unchanged; answer is the content of the first choice;
\* and the retrieval asks for top=3 with k_nearest_neighbors=3, so context holds at most
\* 3 chunks.
C8_PromptAssembly == []PromptShape /\ [][PromptAssembled]_vars

\* Step 6 has run to its end on three results it iterated itself.
C8_Witness ==
    /\ notebook = "rag"
    /\ Ran("GenerateResponse")
    /\ Len(hits) = 4
    /\ ns["context"] =
           Str(Concat([i \in 1..3 |-> hits[i]["chunk"].val \o <<"\n", "\n">>]))
    /\ ns["answer"].type = "str"

----------------------------------------------------------------------------
(* Claims about the embedding of step 4 *)

\* the search request, written from the question's text alone
SearchFromText ==
    (notebook = "rag" /\ ns["search_results"] # Undef) =>
        ns["search_results"].request =
            [search_text |-> None, top |-> 3, select |-> None, query_type |-> None,
             semantic_configuration_name |-> None,
             vector_queries |->
                 List(<<[type |-> "VectorizableTextQuery", text |-> ns["user_question"],
                         k_nearest_neighbors |-> 3, fields |-> "text_vector"]>>)]

\* step 4 assigns the question and its embedding and nothing else; no other step
\* assigns the embedding; the chat request step 6 sends is written from the context
\* and the question's text alone
EmbeddingOnlyStored ==
    /\ lastRun'.cell = "PrepareQuestion" =>
           /\ Kept(Names \ {"user_question", "user_question_vector"})
           /\ environ' = environ
           /\ ~IsChat(wire')
    /\ lastRun'.cell \in {"SetupApiClients", "RetrieveMatchingDocuments", "GenerateResponse"} =>
           Kept({"user_question_vector"})
    /\ (lastRun'.cell = "GenerateResponse" /\ lastRun'.at \in {"response", "end"}) =>
           wire' = [api |-> "chat.completions.create",
                    model |-> Str(environ["AZURE_OPENAI_CHAT_COMPLETION_DEPLOYED_MODEL_NAME"]),
                    temperature |-> "0.7",
                    messages |->
                        <<[role |-> "system",
                           content |-> Str(PromptHead \o ns'["context"].val \o <<"\n">>)],
                          [role |-> "user", content |-> ns'["user_question"]]>>]

\* C9: the embedding of step 4 is dead data: it is assigned and printed and no later
\* step reads it; the search request of step 5 and the chat request of step 6 are
\* functions of the question's text, whatever get_embedding returned.
C9_EmbeddingUnused == []SearchFromText /\ [][EmbeddingOnlyStored]_vars

\* The chat request has been sent in a kernel whose step 4 got the second embedding.
C9_Witness ==
    /\ notebook = "rag"
    /\ Ran("GenerateResponse")
    /\ IsChat(wire)
    /\ ns["user_question_vector"] = List(<<3, 4, 5>>)
    /\ ns["search_results"].request.vector_queries.items[1].text = ns["user_question"]

====
